---- MODULE Spec2Model ----
(***************************************************************************)
(* Model of the three browser verification scripts under src/verification: *)
(*   verify_frontend.py         ("frontend")                               *)
(*   verify_frontend_status.py  ("status")                                 *)
(*   verify_ui.py               ("ui")                                     *)
(* The main thread is a straight-line program; "frontend" and "status"     *)
(* also start a daemon thread that runs start_server().  The rendered page *)
(* is a sequence of markup tokens and the `in` operator of the scripts is  *)
(* modelled as contiguous-subsequence search.                              *)
(***************************************************************************)
EXTENDS Integers, Sequences, FiniteSets, TLC

VARIABLES script, portInUse, pc, mstate, spc, cwd, browser, opened,
          content, output, shotLoc, log, exited

vars == <<script, portInUse, pc, mstate, spc, cwd, browser, opened,
          content, output, shotLoc, log, exited>>

\* Longest rendered content (in tokens) that page.content() may return.
MaxLen == 3

Scripts == {"frontend", "status", "ui"}
ServerScripts == {"frontend", "status"}

\* Pieces of rendered markup; "x" stands for any other text.
Tokens == {"<h3>", "TV Shows", "</h3>", "CinemaOS Movies", "x"}
Contents == UNION {[1..n -> Tokens] : n \in 0..MaxLen}

\* The literal markers the scripts search for.
CinemaMarker == <<"CinemaOS Movies">>
TVMarker == <<"TV Shows">>
TVHeaderMarker == <<"<h3>", "TV Shows", "</h3>">>

\* Python's `needle in hay` on strings: a contiguous occurrence.
Contains(needle, hay) ==
  \E i \in 0..(Len(hay) - Len(needle)) :
     SubSeq(hay, i + 1, i + Len(needle)) = needle

Range(s) == {s[i] : i \in DOMAIN s}
Count(line, out) == Cardinality({i \in DOMAIN out : out[i] = line})

----------------------------------------------------------------------------
\* The statements of each script's main thread, in program order.

StepsWaitBeforeClick(s) ==
  CASE s = "frontend" -> <<"start_thread", "sleep", "launch", "goto", "wait",
                           "screenshot", "content", "cinema", "tv", "close">>
    [] s = "status"   -> <<"start_thread", "sleep", "launch", "goto", "wait",
                           "click", "screenshot", "content", "cinema", "close">>
    [] s = "ui"       -> <<"launch", "announce", "goto", "wait", "click", "wait",
                           "screenshot", "content", "cinema", "tv", "close">>

StepsShotAfterContent(s) ==
  CASE s = "frontend" -> <<"start_thread", "sleep", "launch", "goto", "wait",
                           "content", "screenshot", "cinema", "tv", "close">>
    [] s = "status"   -> <<"start_thread", "sleep", "launch", "goto", "click",
                           "wait", "content", "screenshot", "cinema", "close">>
    [] s = "ui"       -> <<"launch", "announce", "goto", "wait", "click", "wait",
                           "content", "screenshot", "cinema", "tv", "close">>

Steps(s) ==
  CASE s = "frontend" -> <<"start_thread", "sleep", "launch", "goto", "wait",
                           "screenshot", "content", "cinema", "tv", "close">>
    [] s = "status"   -> <<"start_thread", "sleep", "launch", "goto", "click",
                           "wait", "screenshot", "content", "cinema", "close">>
    [] s = "ui"       -> <<"launch", "announce", "goto", "wait", "click", "wait",
                           "screenshot", "content", "cinema", "tv", "close">>

At(step) == /\ mstate = "running"
            /\ pc \in DOMAIN Steps(script)
            /\ Steps(script)[pc] = step

\* The directory the scripts are launched from, and path resolution.
StartDir == <<"work", "app">>

ShotPath(s) ==
  CASE s = "frontend" -> <<"..", "verification", "frontend.png">>
    [] s = "status"   -> <<"..", "verification", "frontend_status.png">>
    [] s = "ui"       -> <<"verification", "status_tab.png">>

RECURSIVE Norm(_, _)
Norm(parts, acc) ==
  IF parts = <<>> THEN acc
  ELSE IF Head(parts) = ".."
       THEN Norm(Tail(parts),
                 IF acc = <<>> THEN acc ELSE SubSeq(acc, 1, Len(acc) - 1))
       ELSE Norm(Tail(parts), Append(acc, Head(parts)))

\* A relative path is resolved against the process working directory.
ResolvePath(dir, rel) == Norm(dir \o rel, <<>>)

----------------------------------------------------------------------------
\* The printed lines.

ServingLine == "serving at port"
NavigatingLine == "Navigating to file://<cwd>/docker/app/public/index.html"

CinemaLineInverted(s, c) ==
  IF s = "ui"
  THEN IF Contains(CinemaMarker, c)
       THEN "SUCCESS: CinemaOS Movies text not found"
       ELSE "FAILURE: CinemaOS Movies text found in page content"
  ELSE IF Contains(CinemaMarker, c)
       THEN "SUCCESS: CinemaOS Movies NOT found in page content"
       ELSE "FAILURE: CinemaOS Movies found in page content"

CinemaLine(s, c) ==
  IF s = "ui"
  THEN IF Contains(CinemaMarker, c)
       THEN "FAILURE: CinemaOS Movies text found in page content"
       ELSE "SUCCESS: CinemaOS Movies text not found"
  ELSE IF Contains(CinemaMarker, c)
       THEN "FAILURE: CinemaOS Movies found in page content"
       ELSE "SUCCESS: CinemaOS Movies NOT found in page content"

TVLinesUnnested(s, c) ==
  IF s = "ui"
  THEN IF Contains(TVHeaderMarker, c)
       THEN <<"FAILURE: TV Shows header found">>
       ELSE <<"SUCCESS: TV Shows header not found">>
  ELSE IF Contains(TVHeaderMarker, c)
       THEN <<"FAILURE: TV Shows card found">>
       ELSE <<"SUCCESS: TV Shows card NOT found">>

TVLines(s, c) ==
  IF Contains(TVMarker, c)
  THEN IF s = "ui"
       THEN <<"CHECK: TV Shows text found in page content?">> \o
            (IF Contains(TVHeaderMarker, c)
             THEN <<"FAILURE: TV Shows header found">>
             ELSE <<"SUCCESS: TV Shows header not found">>)
       ELSE IF Contains(TVHeaderMarker, c)
            THEN <<"FAILURE: TV Shows card found">>
            ELSE <<"SUCCESS: TV Shows card NOT found">>
  ELSE <<>>

----------------------------------------------------------------------------
Init ==
  /\ script \in Scripts
  /\ portInUse \in (IF script \in ServerScripts THEN BOOLEAN ELSE {FALSE})
  /\ pc = 1
  /\ mstate = "running"
  /\ spc = "none"
  /\ cwd = StartDir
  /\ browser = "none"
  /\ opened = 0
  /\ content = <<>>
  /\ output = <<>>
  /\ shotLoc = <<>>
  /\ log = <<>>
  /\ exited = FALSE

\* The server is accepting connections on the fixed port.
Serving == spc = "serving" /\ ~exited

\* A step that completes: control moves to the next statement.
Advance(step) == /\ pc' = pc + 1
                 /\ log' = Append(log, step)

\* An exception raised inside the `with sync_playwright()` block: nothing
\* catches it, the context manager stops the driver and the script ends.
CaughtAndClosed ==
  /\ mstate' = "failed"
  /\ pc' = pc
  /\ log' = Append(log, "close")
  /\ browser' = "closed"

Uncaught ==
  /\ mstate' = "failed"
  /\ pc' = pc
  /\ log' = log
  /\ browser' = IF browser = "open" THEN "stopped" ELSE browser

----------------------------------------------------------------------------
\* Main thread.

StartThread ==
  /\ At("start_thread")
  /\ spc' = "chdir"
  /\ Advance("start_thread")
  /\ UNCHANGED <<script, portInUse, mstate, cwd, browser, opened, content,
                 output, shotLoc, exited>>

Sleep ==
  /\ At("sleep")
  /\ Advance("sleep")
  /\ UNCHANGED <<script, portInUse, mstate, spc, cwd, browser, opened,
                 content, output, shotLoc, exited>>

Launch ==
  /\ At("launch")
  /\ \/ /\ browser' = "open"
        /\ opened' = opened + 1
        /\ Advance("launch")
        /\ UNCHANGED mstate
     \/ /\ Uncaught
        /\ UNCHANGED opened
  /\ UNCHANGED <<script, portInUse, spc, cwd, content, output, shotLoc,
                 exited>>

Announce ==
  /\ At("announce")
  /\ output' = Append(output, NavigatingLine)
  /\ Advance("announce")
  /\ UNCHANGED <<script, portInUse, mstate, spc, cwd, browser, opened,
                 content, shotLoc, exited>>

\* Something answers on the URL the page is sent to.
CanLoad == IF script = "ui" THEN TRUE ELSE (Serving \/ portInUse)

GotoAwaitsServer ==
  /\ At("goto")
  /\ script \in ServerScripts => spc = "serving"
  /\ \/ /\ CanLoad
        /\ Advance("goto")
        /\ UNCHANGED <<mstate, browser>>
     \/ Uncaught
  /\ UNCHANGED <<script, portInUse, spc, cwd, opened, content, output,
                 shotLoc, exited>>

Goto ==
  /\ At("goto")
  /\ \/ /\ CanLoad
        /\ Advance("goto")
        /\ UNCHANGED <<mstate, browser>>
     \/ Uncaught
  /\ UNCHANGED <<script, portInUse, spc, cwd, opened, content, output,
                 shotLoc, exited>>

Wait ==
  /\ At("wait")
  /\ Advance("wait")
  /\ UNCHANGED <<script, portInUse, mstate, spc, cwd, browser, opened,
                 content, output, shotLoc, exited>>

Click ==
  /\ At("click")
  /\ \/ /\ Advance("click")
        /\ UNCHANGED <<mstate, browser>>
     \/ Uncaught
  /\ UNCHANGED <<script, portInUse, spc, cwd, opened, content, output,
                 shotLoc, exited>>

Screenshot ==
  /\ At("screenshot")
  /\ \/ /\ shotLoc' = ResolvePath(cwd, ShotPath(script))
        /\ Advance("screenshot")
        /\ UNCHANGED <<mstate, browser>>
     \/ /\ Uncaught
        /\ UNCHANGED shotLoc
  /\ UNCHANGED <<script, portInUse, spc, cwd, opened, content, output,
                 exited>>

ReadContent ==
  /\ At("content")
  /\ \E c \in Contents : content' = c
  /\ Advance("content")
  /\ UNCHANGED <<script, portInUse, mstate, spc, cwd, browser, opened,
                 output, shotLoc, exited>>

CinemaCheckExitsOnFailure ==
  /\ At("cinema")
  /\ output' = Append(output, CinemaLine(script, content))
  /\ Advance("cinema")
  /\ mstate' = IF Contains(CinemaMarker, content) THEN "done" ELSE mstate
  /\ UNCHANGED <<script, portInUse, spc, cwd, browser, opened, content,
                 shotLoc, exited>>

CinemaCheck ==
  /\ At("cinema")
  /\ output' = Append(output, CinemaLine(script, content))
  /\ Advance("cinema")
  /\ UNCHANGED <<script, portInUse, mstate, spc, cwd, browser, opened,
                 content, shotLoc, exited>>

TVCheck ==
  /\ At("tv")
  /\ output' = output \o TVLines(script, content)
  /\ Advance("tv")
  /\ UNCHANGED <<script, portInUse, mstate, spc, cwd, browser, opened,
                 content, shotLoc, exited>>

\* browser.close() is the last statement; the script ends after it.
Close ==
  /\ At("close")
  /\ browser' = "closed"
  /\ Advance("close")
  /\ mstate' = "done"
  /\ UNCHANGED <<script, portInUse, spc, cwd, opened, content, output,
                 shotLoc, exited>>

MainStep ==
  \/ StartThread \/ Sleep \/ Launch \/ Announce \/ Goto \/ Wait \/ Click
  \/ Screenshot \/ ReadContent \/ CinemaCheck \/ TVCheck \/ Close

----------------------------------------------------------------------------
\* Server thread: start_server().

ChdirThreadLocal ==
  /\ spc = "chdir"
  /\ ~exited
  /\ \/ /\ spc' = "bind"
     \/ /\ spc' = "chdir_failed"
  /\ UNCHANGED <<script, portInUse, pc, mstate, cwd, browser, opened,
                 content, output, shotLoc, log, exited>>

\* os.chdir('public'): changes the directory of the whole process, or
\* raises (outside any try) when there is no such directory.
Chdir ==
  /\ spc = "chdir"
  /\ ~exited
  /\ \/ /\ cwd' = Append(cwd, "public")
        /\ spc' = "bind"
     \/ /\ spc' = "chdir_failed"
        /\ UNCHANGED cwd
  /\ UNCHANGED <<script, portInUse, pc, mstate, browser, opened, content,
                 output, shotLoc, log, exited>>

BindSwallowsAll ==
  /\ spc = "bind"
  /\ ~exited
  /\ IF portInUse
     THEN /\ spc' = "bind_swallowed"
          /\ UNCHANGED output
     ELSE /\ spc' = "serving"
          /\ output' = Append(output, ServingLine)
  /\ UNCHANGED <<script, portInUse, pc, mstate, cwd, browser, opened,
                 content, shotLoc, log, exited>>

\* socketserver.TCPServer(('', PORT), Handler), then serve_forever().
Bind ==
  /\ spc = "bind"
  /\ ~exited
  /\ IF portInUse
     THEN /\ spc' = IF script = "status" THEN "bind_swallowed"
                                         ELSE "bind_crashed"
          /\ UNCHANGED output
     ELSE /\ spc' = "serving"
          /\ output' = Append(output, ServingLine)
  /\ UNCHANGED <<script, portInUse, pc, mstate, cwd, browser, opened,
                 content, shotLoc, log, exited>>

ServerStep == Chdir \/ Bind

----------------------------------------------------------------------------
\* The interpreter exits when the main thread has ended; daemon threads do
\* not keep it alive.
ThreadAlive == spc \in {"chdir", "bind", "serving"}

ProcessExitJoinsThreads ==
  /\ mstate \in {"done", "failed"}
  /\ ~exited
  /\ ~ThreadAlive
  /\ exited' = TRUE
  /\ UNCHANGED <<script, portInUse, pc, mstate, spc, cwd, browser, opened,
                 content, output, shotLoc, log>>

ProcessExit ==
  /\ mstate \in {"done", "failed"}
  /\ ~exited
  /\ exited' = TRUE
  /\ UNCHANGED <<script, portInUse, pc, mstate, spc, cwd, browser, opened,
                 content, output, shotLoc, log>>

Next == MainStep \/ ServerStep \/ ProcessExit

Spec == Init /\ [][Next]_vars

\* The interpreter does exit once the main thread has ended.
FairSpec == Spec /\ WF_vars(ProcessExit)
----------------------------------------------------------------------------
\* Properties.

ClickScripts == {"status", "ui"}
TVScripts == {"frontend", "ui"}
Ran(step) == step \in Range(log)

CinemaFailMsg(s) ==
  IF s = "ui" THEN "FAILURE: CinemaOS Movies text found in page content"
              ELSE "FAILURE: CinemaOS Movies found in page content"
CinemaOkMsg(s) ==
  IF s = "ui" THEN "SUCCESS: CinemaOS Movies text not found"
              ELSE "SUCCESS: CinemaOS Movies NOT found in page content"
TVFailMsgs == {"FAILURE: TV Shows card found", "FAILURE: TV Shows header found"}
TVOkMsgs == {"SUCCESS: TV Shows card NOT found",
             "SUCCESS: TV Shows header not found"}
VerdictMsgs ==
  {CinemaFailMsg(s) : s \in Scripts} \cup {CinemaOkMsg(s) : s \in Scripts}
    \cup TVFailMsgs \cup TVOkMsgs
NumIn(S, out) == Cardinality({i \in DOMAIN out : out[i] \in S})

\* C1: in every script, at most one of the two CinemaOS lines is ever
\* printed; once the CinemaOS check has run (and in every ended run that read
\* the content) exactly one is printed, and it is the FAILURE line if and only
\* if the content read contains "CinemaOS Movies".
C1_CinemaVerdict ==
  LET f == Count(CinemaFailMsg(script), output)
      k == Count(CinemaOkMsg(script), output)
  IN /\ f + k <= 1
     /\ (Ran("content") /\ mstate # "running") => Ran("cinema")
     /\ Ran("cinema") =>
          /\ f + k = 1
          /\ f = 1 <=> Contains(CinemaMarker, content)

C1_Witness ==
  /\ Ran("cinema")
  /\ Contains(CinemaMarker, content)
  /\ Count(CinemaFailMsg(script), output) = 1

\* C2 (as stated): in every script, a finished run has printed the TV Shows
\* FAILURE line when the content contains "<h3>TV Shows</h3>" and the TV
\* Shows SUCCESS line when it does not.
C2_AlwaysPrintsTVVerdict ==
  mstate = "done" =>
    IF Contains(TVHeaderMarker, content)
    THEN NumIn(TVFailMsgs, output) = 1
    ELSE NumIn(TVOkMsgs, output) = 1

\* C2 (amended): verify_frontend_status.py never prints a TV Shows line; in
\* the other two scripts, once the TV Shows check has run, no TV Shows line
\* is printed when the content lacks "TV Shows", and otherwise exactly one is
\* printed: FAILURE iff the content contains "<h3>TV Shows</h3>".
C2_TVVerdictOnlyWhenTextPresent ==
  LET f == NumIn(TVFailMsgs, output)
      k == NumIn(TVOkMsgs, output)
  IN /\ script \notin TVScripts => f + k = 0
     /\ ~Ran("tv") => f + k = 0
     /\ Ran("tv") =>
          IF Contains(TVMarker, content)
          THEN /\ f + k = 1
               /\ f = 1 <=> Contains(TVHeaderMarker, content)
          ELSE f + k = 0

C2_Witness ==
  /\ Ran("tv")
  /\ ~Contains(TVMarker, content)
  /\ mstate = "done"

\* C3 (as stated): in every script that clicks, a fixed wait lies between the
\* navigation and the click.
C3_WaitBeforeEveryClick ==
  script \in ClickScripts =>
    \A i \in DOMAIN log :
       log[i] = "click" =>
         \E j \in 1..(i - 1) :
            /\ log[j] = "wait"
            /\ \E k \in 1..(j - 1) : log[k] = "goto"

\* C3 (amended): in verify_ui.py the click directly follows a fixed wait that
\* directly follows the navigation; in verify_frontend_status.py the click
\* directly follows the navigation and the fixed wait comes right after it.
C3_ClickOrder ==
  \A i \in DOMAIN log :
     log[i] = "click" =>
       IF script = "ui"
       THEN i > 2 /\ log[i - 1] = "wait" /\ log[i - 2] = "goto"
       ELSE /\ i > 1
            /\ log[i - 1] = "goto"
            /\ Len(log) > i => log[i + 1] = "wait"

C3_Witness ==
  /\ script = "status"
  /\ Ran("click")
  /\ log[Len(log)] = "wait"

\* C4: in the clicking scripts the screenshot and the content read come after
\* the click with no navigation in between; in every script the content is
\* read after the screenshot, and no verdict line is printed before it.
C4_ShotAfterClickBeforeRead ==
  /\ script \in ClickScripts =>
       \A i \in DOMAIN log :
          log[i] \in {"screenshot", "content"} =>
            \E j \in 1..(i - 1) :
               /\ log[j] = "click"
               /\ \A k \in (j + 1)..i : log[k] # "goto"
  /\ \A i \in DOMAIN log :
        log[i] = "content" => \E j \in 1..(i - 1) : log[j] = "screenshot"
  /\ NumIn(VerdictMsgs, output) > 0 => Ran("screenshot")

C4_Witness ==
  /\ script \in ClickScripts
  /\ Ran("click")
  /\ Ran("cinema")

\* C5: when the navigation, the click or the screenshot fails, exactly the
\* steps before the failing one have run, no verdict line is printed and
\* browser.close() has not been called.
FailedAtBrowserStep ==
  /\ mstate = "failed"
  /\ Steps(script)[pc] \in {"goto", "click", "screenshot"}

C5_FailureEndsScript ==
  FailedAtBrowserStep =>
    /\ log = SubSeq(Steps(script), 1, pc - 1)
    /\ NumIn(VerdictMsgs, output) = 0
    /\ ~Ran("close")
    /\ browser # "closed"

C5_Witness ==
  /\ FailedAtBrowserStep
  /\ Steps(script)[pc] = "screenshot"
  /\ exited

\* C6: after a failed bind the server thread has ended without serving (by an
\* unhandled exception in verify_frontend.py, by the swallowed OSError in
\* verify_frontend_status.py), and the main thread, while it runs, can always
\* take its next step.
BindFailed == spc \in {"bind_crashed", "bind_swallowed"}

C6_BindFailureUnnoticed ==
  BindFailed =>
    /\ spc = IF script = "frontend" THEN "bind_crashed" ELSE "bind_swallowed"
    /\ ServingLine \notin Range(output)
    /\ mstate = "running" => ENABLED MainStep

C6_Witness ==
  /\ BindFailed
  /\ Ran("goto")
  /\ Ran("cinema")
  /\ mstate = "done"

\* C7 (as stated): the screenshot path resolves to the location it has
\* relative to the directory the script was started in, whatever the server
\* thread did.
C7_ShotLocIndependentOfServer ==
  (script \in ServerScripts /\ Ran("screenshot")) =>
     shotLoc = ResolvePath(StartDir, ShotPath(script))

\* C7 (amended): the working directory is shared: a screenshot taken after
\* the server thread's chdir succeeded lands in <start dir>/verification, one
\* taken before it or after it failed lands in <start dir>/../verification.
ChdirDone == spc \in {"bind", "serving", "bind_crashed", "bind_swallowed"}

C7_ShotLocFollowsChdir ==
  [][(script \in ServerScripts /\ shotLoc' # shotLoc) =>
       shotLoc' = IF ChdirDone
                  THEN <<"work", "app", "verification", ShotPath(script)[3]>>
                  ELSE <<"work", "verification", ShotPath(script)[3]>>]_vars

C7_Witness ==
  /\ script \in ServerScripts
  /\ Ran("screenshot")
  /\ spc = "chdir_failed"
  /\ shotLoc = <<"work", "verification", ShotPath(script)[3]>>

\* C8: nothing makes page.goto wait for the server thread: whenever the main
\* thread stands at page.goto it can issue it, whatever the server thread
\* has done so far.
C8_GotoNeverWaitsForServer ==
  (script \in ServerScripts /\ At("goto")) => ENABLED Goto

\* page.goto was issued while the server thread had not yet bound the port.
C8_Witness ==
  /\ script \in ServerScripts
  /\ ~portInUse
  /\ mstate = "failed"
  /\ Steps(script)[pc] = "goto"
  /\ spc \in {"chdir", "bind"}

\* C9: a serving server keeps serving until the process exits, and the
\* process exits once the main thread has ended.
C9_ServesUntilExit ==
  /\ [][(Serving /\ ~exited') => Serving']_vars
  /\ (mstate # "running") ~> exited

C9_Witness ==
  /\ spc = "serving"
  /\ mstate = "done"
  /\ exited

\* C10: a run that reaches its end has opened one browser, executed every
\* statement of the script in order whatever was printed, and closed the
\* browser last, after the checks.
C10_OneSessionClosedLast ==
  /\ opened <= 1
  /\ Ran("close") =>
       /\ Ran("cinema")
       /\ script \in TVScripts => Ran("tv")
       /\ log[Len(log)] = "close"
  /\ mstate = "done" =>
       /\ opened = 1
       /\ browser = "closed"
       /\ log = Steps(script)

C10_Witness ==
  /\ mstate = "done"
  /\ Count(CinemaFailMsg(script), output) = 1
  /\ browser = "closed"
====
